---- MODULE Spec2Model ----
(***************************************************************************)
(* State-machine model of frankateach/data_collector.py: the DataCollector *)
(* session controller (start) and its recorder threads (save_rgb,          *)
(* save_depth, save_states, save_reskin) sharing the run_event flag.       *)
(***************************************************************************)
EXTENDS Integers, Sequences, FiniteSets, TLC

\* Bounds of the model.
MaxSamples == 1     \* samples the sources deliver while run_event is set
MaxThreads == 2     \* sessions with at most this many recorder threads

VARIABLES
    cfg,                 \* constructor arguments: collect_* flags and cams
    threads,             \* self.threads, in construction order
    stop_flag,           \* stop_flag.value, written by the external driver
    run_event,           \* self.run_event.is_set()
    ctl_pc,              \* position of the thread executing start()
    ctl_i,               \* index of the for loops of start()
    pc,                  \* position of each recorder thread
    source,              \* each thread's Source Adapter: "live" or "dead"
    cur,                 \* sample last returned by the thread's receive call
    recorder,            \* frames written to the cv2.VideoWriter of a thread
    timestamps,          \* save_rgb's timestamps list
    num_image_frames,    \* save_rgb's num_image_frames counter
    states,              \* save_states' states list
    sensor_information,  \* save_reskin's attribute -> list mapping
    sock_log,            \* operations completed on state_socket, in order
    disk,                \* files written under storage_path: name -> content
    closed,              \* threads whose adapter was stopped / closed
    delivered,           \* number of samples all sources delivered so far
    recvLog,             \* samples each thread's receive calls returned
    startsAfterClear,    \* receives each thread started after run_event.clear()
    recvsAfterClear,     \* receives each thread completed after run_event.clear()
    ctor_pc,             \* position of the caller in DataCollector.__init__
    ctor_i,              \* index of the next Source Adapter __init__ constructs
    adapters,            \* Source Adapters constructed so far
    dirs,                \* directories existing under the storage root
    demo_num,            \* constructor argument demo_num
    prev_nums            \* demo_num of the sessions recorded earlier under the root

vars == << cfg, threads, stop_flag, run_event, ctl_pc, ctl_i, pc, source, cur,
           recorder, timestamps, num_image_frames, states, sensor_information,
           sock_log, disk, closed, delivered, recvLog, startsAfterClear,
           recvsAfterClear, ctor_pc, ctor_i, adapters, dirs, demo_num,
           prev_nums >>

ctlVars == << stop_flag, run_event, ctl_pc, ctl_i >>
rgbVars == << recorder, timestamps, num_image_frames >>
bufVars == << recorder, timestamps, num_image_frames, states, sensor_information >>
ghostVars == << recvLog, startsAfterClear, recvsAfterClear >>
ctorVars == << ctor_pc, ctor_i, adapters, dirs, demo_num, prev_nums >>

NoSample == [data |-> 0, ts |-> 0]

\* The threads list built by __init__: per camera an RGB thread and a depth
\* thread (each if enabled), then the state thread, then the reskin thread.
CamThreads(c, n) ==
    (IF c.collect_img THEN << [target |-> "save_rgb", cam_idx |-> n] >> ELSE << >>)
    \o (IF c.collect_depth THEN << [target |-> "save_depth", cam_idx |-> n] >> ELSE << >>)

RECURSIVE AllCamThreads(_, _)
AllCamThreads(c, n) ==
    IF n = 0 THEN << >>
    ELSE AllCamThreads(c, n - 1) \o CamThreads(c, n - 1)

BuildThreads(c) ==
    AllCamThreads(c, c.cams)
    \o (IF c.collect_state THEN << [target |-> "save_states", cam_idx |-> 0] >> ELSE << >>)
    \o (IF c.collect_reskin THEN << [target |-> "save_reskin", cam_idx |-> 0] >> ELSE << >>)

\* Constructor arguments, restricted to sessions of at most MaxThreads threads.
Configs ==
    { c \in [collect_img : BOOLEAN, collect_depth : BOOLEAN,
             collect_state : BOOLEAN, collect_reskin : BOOLEAN,
             cams : 0..MaxThreads] : Len(BuildThreads(c)) <= MaxThreads }

\* The Source Adapters __init__ constructs, in construction order: the image
\* subscribers, the depth subscribers, the state socket, the reskin subscriber.
RECURSIVE CamAdapters(_, _)
CamAdapters(kind, n) ==
    IF n = 0 THEN << >>
    ELSE CamAdapters(kind, n - 1) \o << [kind |-> kind, cam_idx |-> n - 1] >>

AdapterList(c) ==
    (IF c.collect_img THEN CamAdapters("RGB", c.cams) ELSE << >>)
    \o (IF c.collect_depth THEN CamAdapters("Depth", c.cams) ELSE << >>)
    \o (IF c.collect_state THEN << [kind |-> "state_socket", cam_idx |-> 0] >> ELSE << >>)
    \o (IF c.collect_reskin THEN << [kind |-> "reskin_subscriber", cam_idx |-> 0] >> ELSE << >>)

AdapterSet(c) == { AdapterList(c)[i] : i \in 1..Len(AdapterList(c)) }

\* Mutant of DirName: the session number is left out of the directory name.
DirNameWithoutNumber(n) == "demonstration_"

\* self.storage_path = Path(storage_path) / f"demonstration_{demo_num}"
DirName(n) == "demonstration_" \o ToString(n)
StoragePath == DirName(demo_num)

W == 1..Len(threads)
Target(w) == threads[w].target
Terminated(w) == pc[w] \in {"done", "failed"}

\* State after DataCollector.__init__ returned.
Init ==
    /\ cfg \in Configs
    /\ threads = BuildThreads(cfg)
    /\ stop_flag = FALSE
    /\ run_event = TRUE
    /\ ctl_pc = "start"
    /\ ctl_i = 1
    /\ pc = [w \in 1..Len(threads) |-> "idle"]
    /\ source = [w \in 1..Len(threads) |-> "live"]
    /\ cur = [w \in 1..Len(threads) |-> NoSample]
    /\ recorder = [w \in 1..Len(threads) |-> << >>]
    /\ timestamps = [w \in 1..Len(threads) |-> << >>]
    /\ num_image_frames = [w \in 1..Len(threads) |-> 0]
    /\ states = << >>
    /\ sensor_information = [timestamp |-> << >>, sensor_values |-> << >>]
    /\ sock_log = << >>
    /\ disk = << >>
    /\ closed = {}
    /\ delivered = 0
    /\ recvLog = [w \in 1..Len(threads) |-> << >>]
    /\ startsAfterClear = [w \in 1..Len(threads) |-> 0]
    /\ recvsAfterClear = [w \in 1..Len(threads) |-> 0]
    /\ ctor_pc = "constructed"
    /\ ctor_i = Len(AdapterList(cfg)) + 1
    /\ adapters = AdapterSet(cfg)
    /\ demo_num = 1
    /\ dirs = {StoragePath}
    /\ prev_nums = {}

----------------------------------------------------------------------------
\* The external driver asserts the stop signal.
Stop ==
    /\ ~stop_flag
    /\ stop_flag' = TRUE
    /\ UNCHANGED << ctorVars, cfg, threads, run_event, ctl_pc, ctl_i, pc, source, cur,
                    bufVars, sock_log, disk, closed, delivered, ghostVars >>

\* start(): for thread in self.threads: thread.start()
CtlStart ==
    /\ ctl_pc = "start"
    /\ IF ctl_i <= Len(threads)
       THEN /\ pc' = [pc EXCEPT ![ctl_i] = "init"]
            /\ ctl_i' = ctl_i + 1
            /\ ctl_pc' = "start"
       ELSE /\ pc' = pc
            /\ ctl_i' = 1
            /\ ctl_pc' = "poll"
    /\ UNCHANGED << ctorVars, cfg, threads, stop_flag, run_event, source, cur, bufVars,
                    sock_log, disk, closed, delivered, ghostVars >>

\* Mutant of CtlPoll: the wait loop is left without reading stop_flag.
CtlPollNoWait ==
    /\ ctl_pc = "poll"
    /\ ctl_pc' = "clear"
    /\ UNCHANGED << ctorVars, cfg, threads, stop_flag, run_event, ctl_i, pc, source, cur,
                    bufVars, sock_log, disk, closed, delivered, ghostVars >>

\* start(): while not self.stop_flag.value: time.sleep(0.01)
CtlPoll ==
    /\ ctl_pc = "poll"
    /\ ctl_pc' = IF stop_flag THEN "clear" ELSE "poll"
    /\ UNCHANGED << ctorVars, cfg, threads, stop_flag, run_event, ctl_i, pc, source, cur,
                    bufVars, sock_log, disk, closed, delivered, ghostVars >>

\* Mutant of CtlClear: start() goes on to the joins without clearing run_event.
CtlClearForgets ==
    /\ ctl_pc = "clear"
    /\ run_event' = run_event
    /\ ctl_pc' = "join"
    /\ ctl_i' = 1
    /\ UNCHANGED << ctorVars, cfg, threads, stop_flag, pc, source, cur, bufVars,
                    sock_log, disk, closed, delivered, ghostVars >>

\* start(): self.run_event.clear()
CtlClear ==
    /\ ctl_pc = "clear"
    /\ run_event' = FALSE
    /\ ctl_pc' = "join"
    /\ ctl_i' = 1
    /\ UNCHANGED << ctorVars, cfg, threads, stop_flag, pc, source, cur, bufVars,
                    sock_log, disk, closed, delivered, ghostVars >>

\* Mutant of CtlJoin: join does not wait for the thread to terminate.
CtlJoinNoWait ==
    /\ ctl_pc = "join"
    /\ IF ctl_i <= Len(threads)
       THEN /\ ctl_i' = ctl_i + 1
            /\ ctl_pc' = "join"
       ELSE /\ ctl_i' = ctl_i
            /\ ctl_pc' = "returned"
    /\ UNCHANGED << ctorVars, cfg, threads, stop_flag, run_event, pc, source, cur,
                    bufVars, sock_log, disk, closed, delivered, ghostVars >>

\* start(): for thread in self.threads: thread.join()
CtlJoin ==
    /\ ctl_pc = "join"
    /\ IF ctl_i <= Len(threads)
       THEN /\ Terminated(ctl_i)
            /\ ctl_i' = ctl_i + 1
            /\ ctl_pc' = "join"
       ELSE /\ ctl_i' = ctl_i
            /\ ctl_pc' = "returned"
    /\ UNCHANGED << ctorVars, cfg, threads, stop_flag, run_event, pc, source, cur,
                    bufVars, sock_log, disk, closed, delivered, ghostVars >>

\* Whether start() has joined thread w.
Joined(w) == ctl_pc = "returned" \/ (ctl_pc = "join" /\ w < ctl_i)

\* The failures start() holds on record: thread.join() returns None however
\* the thread ended and start() stores nothing, so there are none.
ReportedErrors == {}

----------------------------------------------------------------------------
\* Recorder threads.
LoopTargets == {"save_rgb", "save_states", "save_reskin"}

\* The files of a session directory: << directory, file name >>.
AviFile(dir, cam_idx) == << dir, "cam_" \o ToString(cam_idx) \o "_rgb_video.avi" >>
MetaFile(dir, cam_idx) == << dir, "cam_" \o ToString(cam_idx) \o "_rgb_video.metadata" >>
StatesFile(dir) == << dir, "states.pkl" >>
ReskinFile(dir) == << dir, "reskin_sensor_values.h5" >>

AviName(w) == AviFile(StoragePath, threads[w].cam_idx)
MetaName(w) == MetaFile(StoragePath, threads[w].cam_idx)
StatesName == StatesFile(StoragePath)
ReskinName == ReskinFile(StoragePath)

\* The Source Adapter a thread's target reads; save_depth reads none.
AdapterOf(w) ==
    CASE Target(w) = "save_rgb" -> [kind |-> "RGB", cam_idx |-> threads[w].cam_idx]
      [] Target(w) = "save_depth" -> [kind |-> "Depth", cam_idx |-> threads[w].cam_idx]
      [] Target(w) = "save_states" -> [kind |-> "state_socket", cam_idx |-> 0]
      [] OTHER -> [kind |-> "reskin_subscriber", cam_idx |-> 0]

\* Mutant of WorkerInit: save_depth runs a receive loop like the other targets.
WorkerInitDepthLoops(w) ==
    /\ pc[w] = "init"
    /\ pc' = [pc EXCEPT ![w] = "check"]
    /\ disk' = IF Target(w) = "save_rgb"
               THEN (AviName(w) :> << >>) @@ disk ELSE disk
    /\ UNCHANGED << ctorVars, cfg, threads, ctlVars, source, cur, bufVars, sock_log,
                    closed, delivered, ghostVars >>

\* The part of a target before its while loop: save_rgb opens the
\* VideoWriter on its .avi file; save_depth is only `pass`.
WorkerInit(w) ==
    /\ pc[w] = "init"
    /\ pc' = [pc EXCEPT ![w] = IF Target(w) = "save_depth" THEN "done" ELSE "check"]
    /\ disk' = IF Target(w) = "save_rgb"
               THEN (AviName(w) :> << >>) @@ disk ELSE disk
    /\ UNCHANGED << ctorVars, cfg, threads, ctlVars, source, cur, bufVars, sock_log,
                    closed, delivered, ghostVars >>

\* Mutant of Check: the loop condition does not read run_event (while True).
CheckIgnoresFlag(w) ==
    /\ pc[w] = "check"
    /\ pc' = [pc EXCEPT ![w] = "enter"]
    /\ UNCHANGED << ctorVars, cfg, threads, ctlVars, source, cur, bufVars, sock_log,
                    disk, closed, delivered, ghostVars >>

\* while self.run_event.is_set():
Check(w) ==
    /\ pc[w] = "check"
    /\ pc' = [pc EXCEPT ![w] = IF run_event THEN "enter" ELSE "finalize"]
    /\ UNCHANGED << ctorVars, cfg, threads, ctlVars, source, cur, bufVars, sock_log,
                    disk, closed, delivered, ghostVars >>

\* The thread calls recv_rgb_image() / state_socket.recv() /
\* get_sensor_state() and blocks in it.
CallRecv(w) ==
    /\ pc[w] = "enter"
    /\ pc' = [pc EXCEPT ![w] = "recv"]
    /\ startsAfterClear' =
           [startsAfterClear EXCEPT ![w] = @ + (IF run_event THEN 0 ELSE 1)]
    /\ UNCHANGED << ctorVars, cfg, threads, ctlVars, source, cur, bufVars, sock_log,
                    disk, closed, delivered, recvLog, recvsAfterClear >>

AfterRecv(w) ==
    CASE Target(w) = "save_rgb" -> "write"
      [] Target(w) = "save_states" -> "send"
      [] OTHER -> "store"

\* The n-th sample of a source: its content and its timestamp.
Sample(n) == [data |-> n, ts |-> n]

\* The blocking receive returns the next sample of the thread's source.  While
\* run_event is set the sources deliver at most MaxSamples samples in total.
RecvOk(w) ==
    /\ pc[w] = "recv"
    /\ source[w] = "live"
    /\ run_event => delivered < MaxSamples
    /\ LET sample == Sample(Len(recvLog[w]) + 1) IN
         /\ cur' = [cur EXCEPT ![w] = sample]
         /\ recvLog' = [recvLog EXCEPT ![w] = Append(@, sample)]
    /\ delivered' = delivered + 1
    /\ recvsAfterClear' =
           [recvsAfterClear EXCEPT ![w] = @ + (IF run_event THEN 0 ELSE 1)]
    /\ sock_log' = IF Target(w) = "save_states"
                   THEN Append(sock_log, "recv") ELSE sock_log
    /\ pc' = [pc EXCEPT ![w] = AfterRecv(w)]
    /\ UNCHANGED << ctorVars, cfg, threads, ctlVars, source, bufVars, disk, closed,
                    startsAfterClear >>

\* Mutant of RecvRaise: the exception of one thread ends every thread.
RecvRaiseAbortsAll(w) ==
    /\ pc[w] = "recv"
    /\ source[w] = "live"
    /\ pc' = [v \in W |-> IF pc[v] \in {"idle", "done"} THEN pc[v] ELSE "failed"]
    /\ UNCHANGED << ctorVars, cfg, threads, ctlVars, source, cur, bufVars, sock_log,
                    disk, closed, delivered, ghostVars >>

\* Mutant of RecvRaise: the receive gives up with an exception after a timeout,
\* whether or not its source is alive.
RecvRaiseOnTimeout(w) ==
    /\ pc[w] = "recv"
    /\ pc' = [pc EXCEPT ![w] = "failed"]
    /\ UNCHANGED << ctorVars, cfg, threads, ctlVars, source, cur, bufVars, sock_log,
                    disk, closed, delivered, ghostVars >>

\* The receive raises (transport failure): nothing in the target catches it,
\* so the exception ends the thread.
RecvRaise(w) ==
    /\ pc[w] = "recv"
    /\ source[w] = "live"
    /\ pc' = [pc EXCEPT ![w] = "failed"]
    /\ UNCHANGED << ctorVars, cfg, threads, ctlVars, source, cur, bufVars, sock_log,
                    disk, closed, delivered, ghostVars >>

\* The producer behind a thread's Source Adapter dies: it delivers nothing
\* from now on.  Only a thread blocked in a receive reads its source, so the
\* death is recorded when the thread is there; save_depth never reads its
\* source, whose death is recorded before the thread has run.
Stall(w) ==
    /\ \/ pc[w] = "recv"
       \/ Target(w) = "save_depth" /\ pc[w] \in {"idle", "init"}
    /\ source[w] = "live"
    /\ source' = [source EXCEPT ![w] = "dead"]
    /\ UNCHANGED << ctorVars, cfg, threads, ctlVars, pc, cur, bufVars, sock_log, disk,
                    closed, delivered, ghostVars >>

\* save_rgb: recorder.write(rgb_image)
RgbWrite(w) ==
    /\ pc[w] = "write"
    /\ recorder' = [recorder EXCEPT ![w] = Append(@, cur[w].data)]
    /\ disk' = (AviName(w) :> Append(recorder[w], cur[w].data)) @@ disk
    /\ pc' = [pc EXCEPT ![w] = "stamp"]
    /\ UNCHANGED << ctorVars, cfg, threads, ctlVars, source, cur, timestamps,
                    num_image_frames, states, sensor_information, sock_log,
                    closed, delivered, ghostVars >>

\* save_rgb: timestamps.append(timestamp)
RgbStamp(w) ==
    /\ pc[w] = "stamp"
    /\ timestamps' = [timestamps EXCEPT ![w] = Append(@, cur[w].ts)]
    /\ pc' = [pc EXCEPT ![w] = "count"]
    /\ UNCHANGED << ctorVars, cfg, threads, ctlVars, source, cur, recorder,
                    num_image_frames, states, sensor_information, sock_log,
                    disk, closed, delivered, ghostVars >>

\* Mutant of RgbCount: the counter is not incremented.
RgbCountSkips(w) ==
    /\ pc[w] = "count"
    /\ num_image_frames' = num_image_frames
    /\ pc' = [pc EXCEPT ![w] = "check"]
    /\ UNCHANGED << ctorVars, cfg, threads, ctlVars, source, cur, recorder, timestamps,
                    states, sensor_information, sock_log, disk, closed,
                    delivered, ghostVars >>

\* save_rgb: num_image_frames += 1
RgbCount(w) ==
    /\ pc[w] = "count"
    /\ num_image_frames' = [num_image_frames EXCEPT ![w] = @ + 1]
    /\ pc' = [pc EXCEPT ![w] = "check"]
    /\ UNCHANGED << ctorVars, cfg, threads, ctlVars, source, cur, recorder, timestamps,
                    states, sensor_information, sock_log, disk, closed,
                    delivered, ghostVars >>

\* save_states: the request is unpickled and self.state_socket.send(b"ok")
SendOk(w) ==
    /\ pc[w] = "send"
    /\ sock_log' = Append(sock_log, "send")
    /\ pc' = [pc EXCEPT ![w] = "append"]
    /\ UNCHANGED << ctorVars, cfg, threads, ctlVars, source, cur, bufVars, disk, closed,
                    delivered, ghostVars >>

\* Mutant of SendRaise: the socket is closed on the way out (try/finally).
SendRaiseCloses(w) ==
    /\ pc[w] = "send"
    /\ pc' = [pc EXCEPT ![w] = "failed"]
    /\ closed' = closed \cup {w}
    /\ UNCHANGED << ctorVars, cfg, threads, ctlVars, source, cur, bufVars, sock_log,
                    disk, delivered, ghostVars >>

\* save_states: pickle.loads or the send raises; the thread ends.
SendRaise(w) ==
    /\ pc[w] = "send"
    /\ pc' = [pc EXCEPT ![w] = "failed"]
    /\ UNCHANGED << ctorVars, cfg, threads, ctlVars, source, cur, bufVars, sock_log,
                    disk, closed, delivered, ghostVars >>

\* Mutant of StatesAppend: the record is inserted at the front of the list.
StatesPrepend(w) ==
    /\ pc[w] = "append"
    /\ states' = << cur[w] >> \o states
    /\ pc' = [pc EXCEPT ![w] = "check"]
    /\ UNCHANGED << ctorVars, cfg, threads, ctlVars, source, cur, rgbVars,
                    sensor_information, sock_log, disk, closed, delivered,
                    ghostVars >>

\* Mutant of StatesAppend: the list is pickled to states.pkl after every append.
StatesAppendFlushes(w) ==
    /\ pc[w] = "append"
    /\ states' = Append(states, cur[w])
    /\ disk' = (StatesName :> Append(states, cur[w])) @@ disk
    /\ pc' = [pc EXCEPT ![w] = "check"]
    /\ UNCHANGED << ctorVars, cfg, threads, ctlVars, source, cur, rgbVars,
                    sensor_information, sock_log, closed, delivered,
                    ghostVars >>

\* save_states: states.append(state)
StatesAppend(w) ==
    /\ pc[w] = "append"
    /\ states' = Append(states, cur[w])
    /\ pc' = [pc EXCEPT ![w] = "check"]
    /\ UNCHANGED << ctorVars, cfg, threads, ctlVars, source, cur, rgbVars,
                    sensor_information, sock_log, disk, closed, delivered,
                    ghostVars >>

\* Mutant of ReskinStore: a sample received after run_event was cleared is
\* dropped.
ReskinStoreDropsLate(w) ==
    /\ pc[w] = "store"
    /\ sensor_information' =
           IF run_event
           THEN [timestamp |-> Append(sensor_information.timestamp, cur[w].ts),
                 sensor_values |-> Append(sensor_information.sensor_values, cur[w].data)]
           ELSE sensor_information
    /\ pc' = [pc EXCEPT ![w] = "check"]
    /\ UNCHANGED << ctorVars, cfg, threads, ctlVars, source, cur, rgbVars, states,
                    sock_log, disk, closed, delivered, ghostVars >>

\* save_reskin: for attr in reskin_state.keys(): sensor_information[attr].append(...)
ReskinStore(w) ==
    /\ pc[w] = "store"
    /\ sensor_information' =
           [timestamp |-> Append(sensor_information.timestamp, cur[w].ts),
            sensor_values |-> Append(sensor_information.sensor_values, cur[w].data)]
    /\ pc' = [pc EXCEPT ![w] = "check"]
    /\ UNCHANGED << ctorVars, cfg, threads, ctlVars, source, cur, rgbVars, states,
                    sock_log, disk, closed, delivered, ghostVars >>

\* The code after the while loop of a target.
Metadata(w) ==
    [cam_idx |-> threads[w].cam_idx,
     num_image_frames |-> num_image_frames[w],
     timestamps |-> timestamps[w]]

FinalizeRgb(w) ==
    /\ disk' = (AviName(w) :> recorder[w]) @@ (MetaName(w) :> Metadata(w)) @@ disk
    /\ closed' = closed \cup {w}
    /\ pc' = [pc EXCEPT ![w] = "done"]

\* Mutant of FinalizeStates: an empty states list is not written; the thread
\* ends with an exception instead.
FinalizeStatesNeedsData(w) ==
    IF states = << >>
    THEN /\ disk' = disk
         /\ closed' = closed
         /\ pc' = [pc EXCEPT ![w] = "failed"]
    ELSE /\ disk' = (StatesName :> states) @@ disk
         /\ closed' = closed \cup {w}
         /\ pc' = [pc EXCEPT ![w] = "done"]

FinalizeStates(w) ==
    /\ disk' = (StatesName :> states) @@ disk
    /\ closed' = closed \cup {w}
    /\ pc' = [pc EXCEPT ![w] = "done"]

\* save_reskin writes the h5 file, then prints duration and frequency.
FinalizeReskin(w) ==
    /\ disk' = (ReskinName :> sensor_information) @@ disk
    /\ closed' = closed
    /\ pc' = [pc EXCEPT ![w] = "report"]

Finalize(w) ==
    /\ pc[w] = "finalize"
    /\ CASE Target(w) = "save_rgb" -> FinalizeRgb(w)
         [] Target(w) = "save_states" -> FinalizeStates(w)
         [] OTHER -> FinalizeReskin(w)
    /\ UNCHANGED << ctorVars, cfg, threads, ctlVars, source, cur, bufVars, sock_log,
                    delivered, ghostVars >>

\* save_reskin: sensor_information["timestamp"][-1] - ...[0] raises IndexError
\* on an empty list; nothing catches it.
ReskinReport(w) ==
    /\ pc[w] = "report"
    /\ pc' = [pc EXCEPT ![w] =
                 IF sensor_information.timestamp = << >> THEN "failed" ELSE "done"]
    /\ UNCHANGED << ctorVars, cfg, threads, ctlVars, source, cur, bufVars, sock_log,
                    disk, closed, delivered, ghostVars >>

\* The steps a recorder thread takes on its own.
Worker(w) ==
    /\ w \in W
    /\ \/ WorkerInit(w)
       \/ Check(w)
       \/ CallRecv(w)
       \/ RgbWrite(w)
       \/ RgbStamp(w)
       \/ RgbCount(w)
       \/ SendOk(w)
       \/ StatesAppend(w)
       \/ ReskinStore(w)
       \/ Finalize(w)
       \/ ReskinReport(w)

\* A receive a thread is blocked in completes with a sample.
Deliver(w) == w \in W /\ RecvOk(w)

\* A call on the thread's Source Adapter raises.
Raise(w) == w \in W /\ (RecvRaise(w) \/ SendRaise(w))

Controller == CtlStart \/ CtlPoll \/ CtlClear \/ CtlJoin

ThreadIds == 1..MaxThreads

\* Every behaviour of a session whose sources never stall.
NextLive ==
    \/ Stop
    \/ Controller
    \/ \E w \in ThreadIds : Worker(w)
    \/ \E w \in ThreadIds : Deliver(w)
    \/ \E w \in ThreadIds : Raise(w)

Next ==
    \/ NextLive
    \/ \E w \in W : Stall(w)

Spec == Init /\ [][Next]_vars

\* The threads are scheduled fairly and every receive a thread is blocked in
\* eventually completes.
Fairness ==
    /\ WF_vars(Controller)
    /\ \A w \in ThreadIds : WF_vars(Worker(w) \/ Deliver(w))

LiveSpec == Init /\ [][NextLive]_vars /\ Fairness

----------------------------------------------------------------------------
\* DataCollector.__init__, from the call to its return or its exception.

\* self.image_subscribers.append(ZMQCameraSubscriber(...)), the depth
\* subscribers, create_response_socket(...), ReskinSensorSubscriber(): the
\* next adapter is constructed.
CtorAdapter ==
    /\ ctor_pc = "adapters"
    /\ ctor_i <= Len(AdapterList(cfg))
    /\ adapters' = adapters \cup {AdapterList(cfg)[ctor_i]}
    /\ ctor_i' = ctor_i + 1
    /\ UNCHANGED << ctor_pc, dirs, demo_num, prev_nums, cfg, threads, ctlVars,
                    pc, source, cur, bufVars, sock_log, disk, closed,
                    delivered, ghostVars >>

\* The construction of the next adapter raises: nothing in __init__ catches
\* it, so __init__ ends there with the exception.
CtorAdapterRaise ==
    /\ ctor_pc = "adapters"
    /\ ctor_i <= Len(AdapterList(cfg))
    /\ ctor_pc' = "raised"
    /\ UNCHANGED << ctor_i, adapters, dirs, demo_num, prev_nums, cfg, threads,
                    ctlVars, pc, source, cur, bufVars, sock_log, disk, closed,
                    delivered, ghostVars >>

\* Mutant of CtorMkdir: mkdir without exist_ok raises FileExistsError when the
\* directory is there.
CtorMkdirExclusive ==
    /\ ctor_pc = "adapters"
    /\ ctor_i > Len(AdapterList(cfg))
    /\ dirs' = dirs \cup {StoragePath}
    /\ ctor_pc' = IF StoragePath \in dirs THEN "raised" ELSE "mkdir_done"
    /\ UNCHANGED << ctor_i, adapters, demo_num, prev_nums, cfg, threads,
                    ctlVars, pc, source, cur, bufVars, sock_log, disk, closed,
                    delivered, ghostVars >>

\* self.storage_path.mkdir(parents=True, exist_ok=True)
CtorMkdir ==
    /\ ctor_pc = "adapters"
    /\ ctor_i > Len(AdapterList(cfg))
    /\ dirs' = dirs \cup {StoragePath}
    /\ ctor_pc' = "mkdir_done"
    /\ UNCHANGED << ctor_i, adapters, demo_num, prev_nums, cfg, threads,
                    ctlVars, pc, source, cur, bufVars, sock_log, disk, closed,
                    delivered, ghostVars >>

\* Mutant of CtorThreads: every Thread object is started as it is created.
CtorThreadsStartsThem ==
    /\ ctor_pc = "mkdir_done"
    /\ run_event' = TRUE
    /\ threads' = BuildThreads(cfg)
    /\ pc' = [w \in 1..Len(BuildThreads(cfg)) |-> "init"]
    /\ source' = [w \in 1..Len(BuildThreads(cfg)) |-> "live"]
    /\ cur' = [w \in 1..Len(BuildThreads(cfg)) |-> NoSample]
    /\ recorder' = [w \in 1..Len(BuildThreads(cfg)) |-> << >>]
    /\ timestamps' = [w \in 1..Len(BuildThreads(cfg)) |-> << >>]
    /\ num_image_frames' = [w \in 1..Len(BuildThreads(cfg)) |-> 0]
    /\ recvLog' = [w \in 1..Len(BuildThreads(cfg)) |-> << >>]
    /\ startsAfterClear' = [w \in 1..Len(BuildThreads(cfg)) |-> 0]
    /\ recvsAfterClear' = [w \in 1..Len(BuildThreads(cfg)) |-> 0]
    /\ ctor_pc' = "constructed"
    /\ ctl_pc' = "start"
    /\ ctl_i' = 1
    /\ UNCHANGED << ctor_i, adapters, dirs, demo_num, prev_nums, cfg,
                    stop_flag, states, sensor_information, sock_log, disk,
                    closed, delivered >>

\* self.run_event is created and set and self.threads is filled; __init__
\* returns and the caller goes on to start().
CtorThreads ==
    /\ ctor_pc = "mkdir_done"
    /\ run_event' = TRUE
    /\ threads' = BuildThreads(cfg)
    /\ pc' = [w \in 1..Len(BuildThreads(cfg)) |-> "idle"]
    /\ source' = [w \in 1..Len(BuildThreads(cfg)) |-> "live"]
    /\ cur' = [w \in 1..Len(BuildThreads(cfg)) |-> NoSample]
    /\ recorder' = [w \in 1..Len(BuildThreads(cfg)) |-> << >>]
    /\ timestamps' = [w \in 1..Len(BuildThreads(cfg)) |-> << >>]
    /\ num_image_frames' = [w \in 1..Len(BuildThreads(cfg)) |-> 0]
    /\ recvLog' = [w \in 1..Len(BuildThreads(cfg)) |-> << >>]
    /\ startsAfterClear' = [w \in 1..Len(BuildThreads(cfg)) |-> 0]
    /\ recvsAfterClear' = [w \in 1..Len(BuildThreads(cfg)) |-> 0]
    /\ ctor_pc' = "constructed"
    /\ ctl_pc' = "start"
    /\ ctl_i' = 1
    /\ UNCHANGED << ctor_i, adapters, dirs, demo_num, prev_nums, cfg,
                    stop_flag, states, sensor_information, sock_log, disk,
                    closed, delivered >>

Ctor == CtorAdapter \/ CtorAdapterRaise \/ CtorMkdir \/ CtorThreads

\* The session numbers a caller passes.
Ordinals == {1, 2}

\* A sample of a session recorded earlier.
OldSample == [data |-> -1, ts |-> -1]

\* The files a session recorded earlier with demo_num n has left behind.
OldFiles(n) ==
    (AviFile(DirName(n), 0) :> << OldSample.data >>)
    @@ (MetaFile(DirName(n), 0) :>
           [cam_idx |-> 0, num_image_frames |-> 1, timestamps |-> << OldSample.ts >>])
    @@ (StatesFile(DirName(n)) :> << OldSample >>)
    @@ (ReskinFile(DirName(n)) :>
           [timestamp |-> << OldSample.ts >>, sensor_values |-> << OldSample.data >>])

\* The demo_num of the session recorded earlier.
EarlierOrdinal == 1

\* The caller is about to construct a DataCollector for session demo_num,
\* the number of the earlier session or the next one, under a storage root
\* that holds the session recorded earlier.
SessionInit ==
    /\ cfg \in Configs
    /\ demo_num \in Ordinals
    /\ \E n \in {EarlierOrdinal} :
          /\ prev_nums = {n}
          /\ dirs = {DirName(n)}
          /\ disk = OldFiles(n)
    /\ ctor_pc = "adapters"
    /\ ctor_i = 1
    /\ adapters = {}
    /\ threads = << >>
    /\ stop_flag = FALSE
    /\ run_event = FALSE
    /\ ctl_pc = "new"
    /\ ctl_i = 1
    /\ pc = << >>
    /\ source = << >>
    /\ cur = << >>
    /\ recorder = << >>
    /\ timestamps = << >>
    /\ num_image_frames = << >>
    /\ states = << >>
    /\ sensor_information = [timestamp |-> << >>, sensor_values |-> << >>]
    /\ sock_log = << >>
    /\ closed = {}
    /\ delivered = 0
    /\ recvLog = << >>
    /\ startsAfterClear = << >>
    /\ recvsAfterClear = << >>

SessionNext == Ctor \/ Next

\* A session from the call of the constructor on.
SessionSpec == SessionInit /\ [][SessionNext]_vars

----------------------------------------------------------------------------
\* Helpers of the properties.
Returned == ctl_pc = "returned"
IsLoop(w) == Target(w) \in LoopTargets

\* The file a loop recorder writes when it finalizes.
Artifact(w) ==
    CASE Target(w) = "save_rgb" -> MetaName(w)
      [] Target(w) = "save_states" -> StatesName
      [] OTHER -> ReskinName

\* C1: once the stop signal is asserted, and given that every receive a
\* thread is blocked in eventually completes (LiveSpec), start() eventually
\* returns, whatever stream kinds are enabled.
C1_ShutdownLiveness == stop_flag ~> Returned

\* C1 witness: start() has returned from a session in which a thread was
\* released by a receive that completed after the flag was cleared.
C1_Witness ==
    /\ Returned
    /\ stop_flag
    /\ \E w \in W : recvsAfterClear[w] = 1 /\ pc[w] = "done"

\* C2: after run_event.clear() every loop recorder completes at most one
\* further receive, starts at most one, and never starts another one once a
\* receive of its has completed after the clear.
C2_BoundedExtraSamples ==
    \A w \in W :
        /\ recvsAfterClear[w] <= 1
        /\ startsAfterClear[w] <= 1
        /\ recvsAfterClear[w] = 1 => pc[w] \notin {"enter", "recv"}

\* C2 witness: a recorder started a receive after the clear, completed it,
\* stored the sample and finished.
C2_Witness ==
    \E w \in W :
        /\ startsAfterClear[w] = 1
        /\ recvsAfterClear[w] = 1
        /\ pc[w] = "done"

\* C3: start() returns only with run_event cleared and every thread
\* terminated; the flag is cleared before the first join, and every thread
\* already joined has terminated.
C3_JoinBarrier ==
    /\ Returned => (~run_event /\ \A w \in W : Terminated(w))
    /\ ctl_pc = "join" => (~run_event /\ \A w \in W : w < ctl_i => Terminated(w))

\* C3 witness: start() has returned from a session of MaxThreads threads, a
\* loop recorder among them that wrote its artifact.
C3_Witness ==
    /\ Returned
    /\ Len(threads) = MaxThreads
    /\ \E w \in W : IsLoop(w) /\ pc[w] = "done" /\ Artifact(w) \in DOMAIN disk

\* C4: run_event only ever changes from set to cleared, in the controller's
\* run_event.clear() step, which is taken once, after the controller saw
\* stop_flag asserted, and moves no recorder thread.
C4_RunFlagWriteOnce ==
    [][ /\ (run_event' # run_event) =>
            (run_event /\ ~run_event' /\ ctl_pc = "clear" /\ ctl_pc' = "join"
             /\ stop_flag /\ pc' = pc)
        /\ (ctl_pc = "clear" /\ ctl_pc' # "clear") => (run_event /\ ~run_event')
        /\ (ctl_pc' = "clear" /\ ctl_pc # "clear") => (stop_flag /\ run_event)
      ]_vars

\* C4 witness: the flag is cleared while a recorder is still in a receive.
C4_Witness ==
    /\ ~run_event
    /\ stop_flag
    /\ \E w \in W : pc[w] = "recv"

\* C5: the step in which a recorder's receive or send raises changes nothing
\* of the other threads, of the flag or of the controller; a loop recorder
\* leaves its loop only with the flag cleared; when start() has returned every
\* loop recorder that did not itself raise has written its artifact; and with a
\* failed recorder start() still returns once the stop signal is asserted.
C5_FailureIsolation ==
    /\ [][ \A w \in ThreadIds :
             (w \in W /\ pc[w] \in {"recv", "send"} /\ pc'[w] = "failed") =>
                 /\ \A v \in W \ {w} : pc'[v] = pc[v]
                 /\ run_event' = run_event
                 /\ ctl_pc' = ctl_pc
                 /\ disk' = disk ]_vars
    /\ [](\A w \in ThreadIds :
             (w \in W /\ IsLoop(w) /\ pc[w] \in {"finalize", "report", "done"})
                 => ~run_event)
    /\ [](Returned =>
             \A w \in ThreadIds :
                 (w \in W /\ IsLoop(w) /\ pc[w] # "failed")
                     => (pc[w] = "done" /\ Artifact(w) \in DOMAIN disk))
    /\ ((stop_flag /\ \E w \in W : pc[w] = "failed") ~> Returned)

\* C5 witness: start() has returned from a session in which the receive of one
\* recorder raised and another recorder pulled a sample and wrote its artifact.
C5_Witness ==
    /\ Returned
    /\ \E w \in W : \E v \in W \ {w} :
          /\ pc[w] = "failed"
          /\ Target(w) # "save_reskin"
          /\ pc[v] = "done"
          /\ IsLoop(v)
          /\ recvLog[v] # << >>
          /\ Artifact(v) \in DOMAIN disk

\* C6: every recorder that failed is on record with the controller once the
\* controller has joined it.
C6_FailureReported ==
    \A w \in W : (pc[w] = "failed" /\ Joined(w)) => w \in ReportedErrors

\* The operations on state_socket alternate, starting with a receive.
Alternates(log) ==
    \A i \in 1..Len(log) : log[i] = (IF i % 2 = 1 THEN "recv" ELSE "send")

\* C7: on state_socket receives and replies alternate starting with a
\* receive, a receive is only started when every earlier request has its
\* reply, and when save_states has left its loop, however it left it, no
\* received request is without its reply.
C7_ReplyPairing ==
    /\ Alternates(sock_log)
    /\ \A w \in W :
          Target(w) = "save_states" =>
              /\ pc[w] \in {"enter", "recv"} => Len(sock_log) % 2 = 0
              /\ pc[w] \in {"finalize", "done", "failed"} =>
                     (Len(sock_log) % 2 = 0 /\ Len(sock_log) = 2 * Len(recvLog[w]))

\* C8: the list save_states writes to states.pkl is the sequence of records
\* its receives returned, in receipt order: nothing dropped, duplicated or
\* reordered.
C8_StatesComplete ==
    \A w \in W :
        (Target(w) = "save_states" /\ StatesName \in DOMAIN disk) =>
            /\ disk[StatesName] = recvLog[w]
            /\ Len(disk[StatesName]) = Len(sock_log) \div 2

\* C8 witness: states.pkl holds at least two records, the last of them
\* received after the flag was cleared.
C8_Witness ==
    \E w \in W :
        /\ Target(w) = "save_states"
        /\ StatesName \in DOMAIN disk
        /\ Len(disk[StatesName]) >= 2
        /\ recvsAfterClear[w] = 1

\* C9: at the loop condition of save_rgb and from then on until the next
\* frame is written, num_image_frames, the number of frames written to the
\* encoder and the number of timestamps agree, the i-th frame and the i-th
\* timestamp are those of the i-th sample received, and the metadata file
\* holds these values.
C9_RgbCounts ==
    \A w \in W :
        Target(w) = "save_rgb" =>
            /\ pc[w] \in {"check", "enter", "recv", "finalize", "done"} =>
                  /\ num_image_frames[w] = Len(recorder[w])
                  /\ num_image_frames[w] = Len(timestamps[w])
                  /\ Len(recvLog[w]) = num_image_frames[w]
                  /\ \A i \in 1..Len(recvLog[w]) :
                        /\ recorder[w][i] = recvLog[w][i].data
                        /\ timestamps[w][i] = recvLog[w][i].ts
            /\ pc[w] = "done" =>
                  /\ disk[MetaName(w)].num_image_frames = Len(disk[AviName(w)])
                  /\ disk[MetaName(w)].timestamps = timestamps[w]
                  /\ disk[MetaName(w)].num_image_frames = num_image_frames[w]
                  /\ disk[AviName(w)] = recorder[w]

\* C9 witness: an RGB recorder finished with at least two frames recorded.
C9_Witness ==
    \E w \in W :
        /\ Target(w) = "save_rgb"
        /\ pc[w] = "done"
        /\ disk[MetaName(w)].num_image_frames >= 2

\* A thread blocked in a receive whose source delivers nothing any more.
Stalled(w) == pc[w] = "recv" /\ source[w] = "dead"

\* C10: a thread blocked in a receive on a stalled source stays blocked in
\* it for ever, and start() does not return while there is such a thread.
C10_StalledSourceHangs ==
    /\ [](\A w \in ThreadIds : (w \in W /\ Stalled(w)) => ~Returned)
    /\ [][ \A w \in ThreadIds :
             (w \in W /\ Stalled(w)) =>
                 (pc'[w] = "recv" /\ source'[w] = "dead" /\ ctl_pc' # "returned") ]_vars

\* C10 witness: the stop signal is asserted and the flag cleared, every
\* other thread has terminated, and start() waits in join for a thread
\* stalled in its receive.
C10_Witness ==
    /\ stop_flag
    /\ ~run_event
    /\ ctl_pc = "join"
    /\ \E w \in W :
          /\ Stalled(w)
          /\ ctl_i = w
          /\ \A v \in W \ {w} : Terminated(v)
          /\ Len(threads) = MaxThreads

\* C11: when the construction of a Source Adapter raises, __init__ ends with
\* the exception, no thread has been created or started, and the session
\* directory has been created.
C11_CtorFailure ==
    ctor_pc = "raised" =>
        /\ threads = << >>
        /\ pc = << >>
        /\ StoragePath \in dirs

\* C12: a save_rgb or save_states thread that leaves its loop without having
\* received a sample completes its finalize: the step out of finalize ends in
\* done, never in an exception, and the metadata then holds frame count 0 and
\* no timestamps, states.pkl an empty list.
C12_EmptyFinalize ==
    /\ [][ \A w \in ThreadIds :
             (w \in W /\ Target(w) \in {"save_rgb", "save_states"}
              /\ recvLog[w] = << >> /\ pc[w] = "finalize" /\ pc'[w] # "finalize")
                 => pc'[w] = "done" ]_vars
    /\ [](\A w \in ThreadIds :
             (w \in W /\ recvLog[w] = << >> /\ pc[w] = "done") =>
                 /\ Target(w) = "save_rgb" =>
                        /\ disk[MetaName(w)].num_image_frames = 0
                        /\ disk[MetaName(w)].timestamps = << >>
                        /\ disk[AviName(w)] = << >>
                 /\ Target(w) = "save_states" => disk[StatesName] = << >>)

\* C12 witness: start() has returned from a session whose save_rgb and
\* save_states threads both finished without having received a sample.
C12_Witness ==
    /\ Returned
    /\ \E w \in W : \E v \in W :
          /\ Target(w) = "save_rgb"
          /\ Target(v) = "save_states"
          /\ pc[w] = "done" /\ recvLog[w] = << >>
          /\ pc[v] = "done" /\ recvLog[v] = << >>

\* C13: a save_reskin thread that reaches its duration/rate report without
\* having received a sample finishes the report without an exception.
C13_EmptyReskinGuarded ==
    [][ \A w \in ThreadIds :
          (w \in W /\ Target(w) = "save_reskin" /\ pc[w] = "report"
           /\ recvLog[w] = << >>)
              => pc'[w] \in {"report", "done"} ]_vars

\* C14: the session directory differs from the directory of every other
\* session number; it exists when __init__ has returned, so before any thread
\* runs; every file a thread creates or changes lies in it; and the files of
\* an earlier session with another number are never touched.
C14_DirectorySeparation ==
    /\ [](\A n \in (Ordinals \cup prev_nums) \ {demo_num} :
             DirName(n) # StoragePath)
    /\ []((ctor_pc = "constructed" \/ \E w \in W : pc[w] # "idle")
             => StoragePath \in dirs)
    /\ [][ \A p \in DOMAIN disk' :
             (p \notin DOMAIN disk \/ disk'[p] # disk[p]) => p[1] = StoragePath ]_vars
    /\ [](\A n \in prev_nums \ {demo_num} :
             \A p \in DOMAIN OldFiles(n) :
                 p \in DOMAIN disk /\ disk[p] = OldFiles(n)[p])

\* C14 witness: start() has returned from a session whose number differs from
\* the earlier session's and whose two recorders wrote their artifacts.
C14_Witness ==
    /\ Returned
    /\ demo_num \notin prev_nums
    /\ Len(threads) = MaxThreads
    /\ \A w \in W : IsLoop(w) /\ pc[w] = "done" /\ Artifact(w) \in DOMAIN disk

\* The lifecycle phase of a thread, read from its position in the target.
Phase(w) ==
    CASE pc[w] = "idle" -> "IDLE"
      [] pc[w] = "finalize" \/ pc[w] = "report" -> "FINALIZING"
      [] pc[w] = "done" -> "DONE"
      [] pc[w] = "failed" -> "FAILED"
      [] OTHER -> "RUNNING"

PhaseRank(ph) ==
    CASE ph = "IDLE" -> 0
      [] ph = "RUNNING" -> 1
      [] ph = "FINALIZING" -> 2
      [] OTHER -> 3

\* The files a thread's target opens for writing.
FilesOf(w) ==
    CASE Target(w) = "save_rgb" -> {AviName(w), MetaName(w)}
      [] Target(w) = "save_states" -> {StatesName}
      [] Target(w) = "save_reskin" -> {ReskinName}
      [] OTHER -> {}

\* The step creates file p or changes its content.
Written(p) == p \in DOMAIN disk' /\ (p \notin DOMAIN disk \/ disk'[p] # disk[p])

C16_ConstructBeforeRun ==
    /\ ctor_pc # "constructed" => (threads = << >> /\ ctl_pc = "new")
    /\ ctor_pc = "constructed" =>
           /\ adapters = AdapterSet(cfg)
           /\ threads = BuildThreads(cfg)
    /\ \A w \in W :
           pc[w] # "idle" =>
               /\ ctor_pc = "constructed"
               /\ ctl_pc # "new"
               /\ ctl_pc = "start" => w < ctl_i
               /\ AdapterOf(w) \in adapters
    /\ (ctl_pc = "new" \/ (ctl_pc = "start" /\ ctl_i = 1)) =>
           /\ \A w \in W : pc[w] = "idle" /\ recvLog[w] = << >>
           /\ \E n \in prev_nums : disk = OldFiles(n)

\* C16 witness: __init__ has returned with MaxThreads Thread objects and
\* start() has started none of them yet.
C16_Witness ==
    /\ ctor_pc = "constructed"
    /\ ctl_pc = "start"
    /\ ctl_i = 1
    /\ Len(threads) = MaxThreads
    /\ \A w \in W : pc[w] = "idle" /\ AdapterOf(w) \in adapters

\* C17: a save_depth thread only returns: it never enters the loop, never
\* receives, creates no file; its single step is enabled whatever run_event
\* and its source are, so a dead depth source cannot keep it from ending.
C17_DepthNoOp ==
    /\ \A w \in W : Target(w) = "save_depth" =>
           /\ pc[w] \in {"idle", "init", "done"}
           /\ recvLog[w] = << >>
           /\ startsAfterClear[w] = 0
           /\ pc[w] = "init" => ENABLED WorkerInit(w)
    /\ \A p \in DOMAIN disk : \E v \in W : IsLoop(v) /\ p \in FilesOf(v)

\* C17 witness: start() has returned from a session whose save_depth thread
\* ended although its source was dead before the thread ran.
C17_Witness ==
    /\ Returned
    /\ \E w \in W :
          /\ Target(w) = "save_depth"
          /\ source[w] = "dead"
          /\ pc[w] = "done"

\* The data and the timestamps of the samples a thread has received.
DataOf(log) == [i \in 1..Len(log) |-> log[i].data]
StampsOf(log) == [i \in 1..Len(log) |-> log[i].ts]

\* C18: whenever a loop recorder evaluates its loop condition, and from then
\* on when it has left the loop, what it has stored is exactly what its
\* receives returned, in order: frames given to the encoder, timestamps and
\* count in save_rgb, the list in save_states, the per-attribute lists in
\* save_reskin; the sample received after run_event was cleared included.
C18_NoSampleDiscarded ==
    \A w \in W :
        (IsLoop(w) /\ pc[w] \in {"check", "finalize", "report", "done"}) =>
            /\ Target(w) = "save_rgb" =>
                   /\ recorder[w] = DataOf(recvLog[w])
                   /\ disk[AviName(w)] = DataOf(recvLog[w])
                   /\ timestamps[w] = StampsOf(recvLog[w])
                   /\ num_image_frames[w] = Len(recvLog[w])
            /\ Target(w) = "save_states" => states = recvLog[w]
            /\ Target(w) = "save_reskin" =>
                   /\ sensor_information.timestamp = StampsOf(recvLog[w])
                   /\ sensor_information.sensor_values = DataOf(recvLog[w])

\* C18 witness: a save_reskin thread is back at its loop condition with the
\* sample stored that its receive returned after run_event was cleared.
C18_Witness ==
    \E w \in W :
        /\ Target(w) = "save_reskin"
        /\ pc[w] = "check"
        /\ recvsAfterClear[w] = 1
        /\ Len(sensor_information.timestamp) = 1

\* C19: a save_rgb or save_states thread ended by an exception in its loop
\* stays ended and never runs the code after the loop: metadata / states.pkl
\* are never written, so the states, timestamps and frame count it had
\* accumulated are in no file, and its adapter is never closed; the frames
\* save_rgb had already given to the encoder stay in the .avi file.
C19_FailureSkipsFinalize ==
    /\ [](\A w \in W :
            (Target(w) \in {"save_rgb", "save_states"} /\ pc[w] = "failed") =>
                /\ Artifact(w) \notin DOMAIN disk
                /\ w \notin closed
                /\ Target(w) = "save_rgb" =>
                       /\ disk[AviName(w)] = recorder[w]
                       /\ \A i \in 1..Len(recorder[w]) :
                              recorder[w][i] = recvLog[w][i].data)
    /\ [][ \A w \in ThreadIds :
             (w \in W /\ Target(w) \in {"save_rgb", "save_states"}) =>
                 /\ pc[w] = "failed" => pc'[w] = "failed"
                 /\ (pc'[w] = "failed" /\ pc[w] # "failed") =>
                        (disk' = disk /\ pc[w] \in {"recv", "send"}) ]_vars

\* C19 witness: start() has returned from a session in which save_rgb was
\* ended by an exception after one frame and save_states by one as well.
C19_Witness ==
    /\ Returned
    /\ \E w \in W : \E v \in W :
          /\ Target(w) = "save_rgb"
          /\ pc[w] = "failed"
          /\ Len(recorder[w]) = 1
          /\ disk[AviName(w)] = recorder[w]
          /\ Target(v) = "save_states"
          /\ pc[v] = "failed"

\* C20: when the directory of demo_num exists already, mkdir does not raise
\* (__init__ fails only in an adapter constructor) and no other directory is
\* created; the files of the threads are the files the earlier session left
\* there, and a thread that is done has replaced their content by its own.
C20_SameOrdinalReuse ==
    demo_num \in prev_nums =>
        /\ ctor_pc = "raised" => ctor_i <= Len(AdapterList(cfg))
        /\ dirs = {StoragePath}
        /\ \A w \in W :
               (IsLoop(w) /\ threads[w].cam_idx = 0) =>
                   /\ FilesOf(w) \subseteq DOMAIN OldFiles(demo_num)
                   /\ pc[w] = "done" =>
                          /\ disk[Artifact(w)] # OldFiles(demo_num)[Artifact(w)]
                          /\ disk[Artifact(w)] =
                                 CASE Target(w) = "save_rgb" -> Metadata(w)
                                   [] Target(w) = "save_states" -> states
                                   [] OTHER -> sensor_information
                          /\ Target(w) = "save_rgb" =>
                                 disk[AviName(w)] = recorder[w]

\* C20 witness: start() has returned from a session run with the number of
\* the earlier session; its save_states thread has replaced states.pkl.
C20_Witness ==
    /\ Returned
    /\ demo_num \in prev_nums
    /\ \E w \in W :
          /\ Target(w) = "save_states"
          /\ pc[w] = "done"
          /\ Len(recvLog[w]) = 1
          /\ disk[StatesName] = recvLog[w]
          /\ disk[StatesName] # OldFiles(demo_num)[StatesName]
====
